---- MODULE Spec2Model ----
(***************************************************************************)
(* A model of the AI backend's controller (controllers/aiController.js,    *)
(* routed by routes/apiRoutes.js): the allow-list, the dispatch helper     *)
(* callAI, and the seven endpoint handlers.  Each handler is cut at its    *)
(* await points: every action below is one run-to-completion segment of a  *)
(* handler on Node's event loop, so segments of different requests         *)
(* interleave but never overlap.                                           *)
(***************************************************************************)
EXTENDS Integers, Sequences, FiniteSets, TLC

\* Number of requests the server receives in one behaviour.
MaxReq == 2

Reqs == 1..MaxReq

-----------------------------------------------------------------------------
\* Values of JavaScript that the handlers test for.

\* A field that the request body does not carry.
Undefined == "<undefined>"

\* `!v` for the string-or-undefined values of a request body.
FalsyMutant(v) == v = Undefined
Falsy(v) == v = Undefined \/ v = ""

\* Array.prototype.includes
Includes(arr, x) == \E i \in 1..Len(arr) : arr[i] = x

\* Array.prototype.join
RECURSIVE Join(_, _)
Join(arr, sep) ==
    IF Len(arr) = 0 THEN ""
    ELSE IF Len(arr) = 1 THEN arr[1]
    ELSE arr[1] \o sep \o Join(Tail(arr), sep)

-----------------------------------------------------------------------------
\* The allow-list and the dispatch helper.

AVAILABLE_MODELS ==
    << "microsoft/phi-4-reasoning-plus:free",
       "thudm/glm-z1-32b:free",
       "deepseek/deepseek-chat-v3-0324:free",
       "deepseek/deepseek-chat:free",
       "qwen/qwen3-32b:free" >>

InvalidModelMessage ==
    "Invalid model. Choose from: " \o Join(AVAILABLE_MODELS, ", ")

UpstreamFailureMessage == "Failed to get response from AI model."

\* callAI, before its await: TRUE when it throws the invalid-model error
\* instead of calling the provider.
CallAIRejectsMutant(model) == FALSE
CallAIRejects(model) == ~Includes(AVAILABLE_MODELS, model)

\* completion.choices[0].message.content
FirstChoiceMutant(choices) == choices[Len(choices)]
FirstChoice(choices) == choices[1]

\* callAI, after its await: what it returns or throws for the provider's
\* outcome.  Reading choices[0] of an empty list is a TypeError inside the
\* try block, so it ends in the same catch as a provider error.
CallAISettle(out) ==
    IF out.ok /\ Len(out.choices) > 0
    THEN [threw |-> FALSE, value |-> FirstChoice(out.choices)]
    ELSE [threw |-> TRUE, value |-> UpstreamFailureMessage]

-----------------------------------------------------------------------------
\* The endpoints.

PromptEndpoints ==
    {"getMathReasoning", "solveCodingTask", "handleChat", "getExplainer"}

ModelEndpoints ==
    PromptEndpoints \cup {"generateCode", "summarizeYoutubeVideo"}

\* The default of the destructuring `model = '...'` of each handler.
DefaultModel(ep) ==
    CASE ep = "generateCode"          -> "deepseek/deepseek-chat:free"
      [] ep = "getMathReasoning"      -> "microsoft/phi-4-reasoning-plus:free"
      [] ep = "solveCodingTask"       -> "thudm/glm-z1-32b:free"
      [] ep = "summarizeYoutubeVideo" -> "deepseek/deepseek-chat-v3-0324:free"
      [] ep = "handleChat"            -> "qwen/qwen3-32b:free"
      [] ep = "getExplainer"          -> "deepseek/deepseek-chat:free"

\* A destructuring default applies to an undefined field only.
EffectiveModel(ep, model) == IF model = Undefined THEN DefaultModel(ep) ELSE model

\* The message of each handler's 400 response.
MissingMessage(ep) ==
    CASE ep = "generateCode"          -> "Prompt is required."
      [] ep = "getMathReasoning"      -> "Math problem prompt is required."
      [] ep = "solveCodingTask"       -> "Coding task prompt is required."
      [] ep = "summarizeYoutubeVideo" -> "YouTube URL is required."
      [] ep = "handleChat"            -> "Prompt is required for chat."
      [] ep = "imageToText"           -> "Image file is required."
      [] ep = "getExplainer"          -> "Topic is required."

\* The field of each handler's success payload.
ResponseField(ep) ==
    CASE ep = "getMathReasoning"      -> "reasoning"
      [] ep = "solveCodingTask"       -> "solution"
      [] ep = "summarizeYoutubeVideo" -> "summary"
      [] ep = "handleChat"            -> "response"
      [] ep = "imageToText"           -> "description"
      [] ep = "getExplainer"          -> "explanation"

NoTranscriptMessage ==
    "Could not fetch transcript for this video. It might have transcripts disabled."

YoutubeFailureMessage ==
    "Failed to summarize YouTube video. Please ensure the URL is correct and the video has a transcript."

ImageFailureMessage == "Failed to process image."

\* The error message of a handler's catch block for a caught error whose
\* message is `message`.
CatchMessage(ep, message) ==
    CASE ep = "summarizeYoutubeVideo" -> YoutubeFailureMessage
      [] ep = "imageToText"           -> ImageFailureMessage
      [] OTHER                        -> message

\* `!transcript || transcript.length === 0`
NoTranscriptMutant(t) == t.kind = "null"
NoTranscript(t) == t.kind = "null" \/ Len(t.segments) = 0

\* transcript.map((item) => item.text).join(' '), in the user message.
TranscriptContent(t) == "Transcript: " \o Join(t.segments, " ")

-----------------------------------------------------------------------------
\* Inputs and outcomes of the collaborators.

FieldInputs == {Undefined, "", "a prompt"}

\* No model (the handler's default, which covers the five allowed ids between
\* the handlers) or a model that the allow-list does not have.
ModelInputs == {Undefined, "gpt-4"}

ChoiceLists == {<< >>, <<"T1", "T2">>, <<"T2", "T1">>}

ProviderErrors == {"401 No auth credentials found", "429 Rate limit exceeded"}

ProviderOutcomes ==
    {[ok |-> TRUE, choices |-> c, detail |-> ""] : c \in ChoiceLists}
    \cup {[ok |-> FALSE, choices |-> << >>, detail |-> d] : d \in ProviderErrors}

TranscriptOutcomes ==
    { [kind |-> "throw", segments |-> << >>],
      [kind |-> "null", segments |-> << >>],
      [kind |-> "list", segments |-> << >>],
      [kind |-> "list", segments |-> <<"Hello", "world">>] }

TranscriptError == "Transcript is disabled on this video"

MkdirError == "EACCES: permission denied, mkdir"
OpenError == "EACCES: permission denied, open"
ReadError == "EACCES: permission denied, read"
EmptyChoicesError == "TypeError: Cannot read properties of undefined"

-----------------------------------------------------------------------------
VARIABLES
    req,              \* the request each slot received: endpoint, body, file
    pc,               \* where each request's handler is suspended
    res,              \* the response sent for each request
    fault,            \* the failure behind each request's response, if any
    callAI,           \* each request's call of the dispatch helper
    provider,         \* what the provider answered to each request
    transcript,       \* what the transcript source answered to each request
    upstreamCalls,    \* provider calls issued for each request
    transcriptCalls,  \* transcript fetches issued for each request
    generatedDir,     \* generated_code/ exists
    generatedFile,    \* generated_code/index.html
    uploads,          \* the uploaded files on storage, by request
    streamed,         \* what res.download transferred to each request
    uncaught          \* requests with an exception thrown outside any try

vars == << req, pc, res, fault, callAI, provider, transcript, upstreamCalls,
           transcriptCalls, generatedDir, generatedFile, uploads, streamed,
           uncaught >>

NoReq == [endpoint |-> "none", field |-> Undefined, model |-> Undefined, file |-> FALSE]
NoResponse == [status |-> 0, field |-> "", value |-> ""]
NoFault == [kind |-> "none", detail |-> ""]
NoCall == [status |-> "none", model |-> "", user |-> "", value |-> ""]
NoOutcome == [ok |-> FALSE, choices |-> << >>, detail |-> "none"]
NoTranscriptYet == [kind |-> "none", segments |-> << >>]
NoFile == [writer |-> 0, content |-> ""]
NoTransfer == [state |-> "none", bytes |-> ""]

Init ==
    /\ req = [r \in Reqs |-> NoReq]
    /\ pc = [r \in Reqs |-> "idle"]
    /\ res = [r \in Reqs |-> NoResponse]
    /\ fault = [r \in Reqs |-> NoFault]
    /\ callAI = [r \in Reqs |-> NoCall]
    /\ provider = [r \in Reqs |-> NoOutcome]
    /\ transcript = [r \in Reqs |-> NoTranscriptYet]
    /\ upstreamCalls = [r \in Reqs |-> 0]
    /\ transcriptCalls = [r \in Reqs |-> 0]
    /\ generatedDir = FALSE
    /\ generatedFile = NoFile
    /\ uploads = {}
    /\ streamed = [r \in Reqs |-> NoTransfer]
    /\ uncaught = {}

Json(status, field, value) == [status |-> status, field |-> field, value |-> value]
Fault(kind, detail) == [kind |-> kind, detail |-> detail]

\* Request r arrives; slots are filled in order.
Arrives(r, ep, field, model, file) ==
    /\ pc[r] = "idle"
    /\ \A q \in 1..(r - 1) : pc[q] # "idle"
    /\ req' = [req EXCEPT ![r] =
                  [endpoint |-> ep, field |-> field, model |-> model, file |-> file]]

\* `await callAI(model, [system, user])` up to the point where the handler
\* is suspended, or to the handler's catch when callAI throws at once.
Dispatch(r, ep, model, user) ==
    IF CallAIRejects(model)
    THEN /\ callAI' = [callAI EXCEPT ![r] =
                [status |-> "InvalidModel", model |-> model, user |-> user,
                 value |-> InvalidModelMessage]]
         /\ res' = [res EXCEPT ![r] =
                Json(500, "error", CatchMessage(ep, InvalidModelMessage))]
         /\ fault' = [fault EXCEPT ![r] = Fault("InvalidModel", InvalidModelMessage)]
         /\ pc' = [pc EXCEPT ![r] = "done"]
         /\ UNCHANGED upstreamCalls
    ELSE /\ callAI' = [callAI EXCEPT ![r] =
                [status |-> "pending", model |-> model, user |-> user, value |-> ""]]
         /\ upstreamCalls' = [upstreamCalls EXCEPT ![r] = @ + 1]
         /\ pc' = [pc EXCEPT ![r] = "callAI"]
         /\ UNCHANGED << res, fault >>

\* The first segment of a handler that takes a text field and a model.
PromptEntry(r, ep) ==
    \E field \in FieldInputs, model \in ModelInputs :
        /\ Arrives(r, ep, field, model, FALSE)
        /\ IF Falsy(field)
           THEN /\ res' = [res EXCEPT ![r] = Json(400, "error", MissingMessage(ep))]
                /\ fault' = [fault EXCEPT ![r] = Fault("MissingInput", "")]
                /\ pc' = [pc EXCEPT ![r] = "done"]
                /\ UNCHANGED << callAI, upstreamCalls >>
           ELSE Dispatch(r, ep, EffectiveModel(ep, model), field)
        /\ UNCHANGED << provider, transcript, transcriptCalls, generatedDir, generatedFile,
                        uploads, streamed, uncaught >>

\* callAI settles for request r with the provider's outcome `out`.
Settle(r, out) ==
    /\ provider' = [provider EXCEPT ![r] = out]
    /\ callAI' = [callAI EXCEPT ![r] =
            [@ EXCEPT !.status = IF CallAISettle(out).threw
                                 THEN "UpstreamFailure" ELSE "returned",
                      !.value = CallAISettle(out).value]]

UpstreamDetail(out) == IF out.ok THEN EmptyChoicesError ELSE out.detail

\* The segment after `await callAI` of a handler that answers with JSON.
JsonResume(r, ep) ==
    /\ pc[r] = "callAI"
    /\ req[r].endpoint = ep
    /\ \E out \in ProviderOutcomes :
        /\ Settle(r, out)
        /\ IF CallAISettle(out).threw
           THEN /\ res' = [res EXCEPT ![r] =
                       Json(500, "error", CatchMessage(ep, CallAISettle(out).value))]
                /\ fault' = [fault EXCEPT ![r] =
                       Fault("UpstreamFailure", UpstreamDetail(out))]
           ELSE /\ res' = [res EXCEPT ![r] =
                       Json(200, ResponseField(ep), CallAISettle(out).value)]
                /\ UNCHANGED fault
    /\ pc' = [pc EXCEPT ![r] = "done"]
    /\ UNCHANGED << req, transcript, upstreamCalls, transcriptCalls, generatedDir,
                    generatedFile, uploads, streamed, uncaught >>

-----------------------------------------------------------------------------
\* 2, 3, 5, 7: math reasoning, coding task, chat, explainer.

getMathReasoning(r) == PromptEntry(r, "getMathReasoning")
getMathReasoningResume(r) == JsonResume(r, "getMathReasoning")

solveCodingTask(r) == PromptEntry(r, "solveCodingTask")
solveCodingTaskResume(r) == JsonResume(r, "solveCodingTask")

handleChat(r) == PromptEntry(r, "handleChat")
handleChatResume(r) == JsonResume(r, "handleChat")

getExplainer(r) == PromptEntry(r, "getExplainer")
getExplainerResume(r) == JsonResume(r, "getExplainer")

-----------------------------------------------------------------------------
\* 1: code generation.

generateCode(r) == PromptEntry(r, "generateCode")

\* What existsSync/mkdirSync/writeFileSync can do once the code is there:
\* succeed, or throw before index.html is touched.
FileOutcomes ==
    {"ok", OpenError} \cup (IF generatedDir THEN {} ELSE {MkdirError})

\* The segment after `await callAI`: write the shared file and start the
\* download, or answer 500 from the catch block.
generateCodeResume(r) ==
    /\ pc[r] = "callAI"
    /\ req[r].endpoint = "generateCode"
    /\ \E out \in ProviderOutcomes, io \in FileOutcomes :
        /\ Settle(r, out)
        /\ IF CallAISettle(out).threw
           THEN /\ res' = [res EXCEPT ![r] =
                       Json(500, "error", CallAISettle(out).value)]
                /\ fault' = [fault EXCEPT ![r] =
                       Fault("UpstreamFailure", UpstreamDetail(out))]
                /\ pc' = [pc EXCEPT ![r] = "done"]
                /\ UNCHANGED << generatedDir, generatedFile >>
           ELSE IF io # "ok"
           THEN /\ res' = [res EXCEPT ![r] = Json(500, "error", io)]
                /\ fault' = [fault EXCEPT ![r] = Fault("InternalFailure", io)]
                /\ pc' = [pc EXCEPT ![r] = "done"]
                /\ generatedDir' = (generatedDir \/ io = OpenError)
                /\ UNCHANGED generatedFile
           ELSE /\ generatedDir' = TRUE
                /\ generatedFile' =
                       [writer |-> r, content |-> CallAISettle(out).value]
                /\ pc' = [pc EXCEPT ![r] = "download"]
                /\ UNCHANGED << res, fault >>
    /\ UNCHANGED << req, transcript, upstreamCalls, transcriptCalls, uploads, streamed,
                    uncaught >>

\* res.download reads generated_code/index.html and sends it: the file is
\* missing (nothing is sent, the callback gets the error), the client goes
\* away during the transfer, or the bytes on disk are sent.
generateCodeTransfer(r) ==
    /\ pc[r] = "download"
    /\ \E aborted \in BOOLEAN :
        IF generatedFile = NoFile
        THEN /\ streamed' = [streamed EXCEPT ![r] = [state |-> "ENOENT", bytes |-> ""]]
             /\ UNCHANGED res
        ELSE IF aborted
        THEN /\ streamed' = [streamed EXCEPT ![r] = [state |-> "aborted", bytes |-> ""]]
             /\ res' = [res EXCEPT ![r] = Json(200, "download", "index.html")]
        ELSE /\ streamed' = [streamed EXCEPT ![r] =
                    [state |-> "sent", bytes |-> generatedFile.content]]
             /\ res' = [res EXCEPT ![r] = Json(200, "download", "index.html")]
    /\ pc' = [pc EXCEPT ![r] = "callback"]
    /\ UNCHANGED << req, fault, callAI, provider, transcript, upstreamCalls, transcriptCalls,
                    generatedDir, generatedFile, uploads, uncaught >>

\* fs.unlinkSync(filePath) in a callback: TRUE when it throws ENOENT, which
\* no try block of the handler is around any more.
UnlinkThrows(file) == file = NoFile

\* The callback of res.download: log the error if any, unlink the shared path.
generateCodeCallback(r) ==
    /\ pc[r] = "callback"
    /\ uncaught' = IF UnlinkThrows(generatedFile) THEN uncaught \cup {r} ELSE uncaught
    /\ generatedFile' = NoFile
    /\ pc' = [pc EXCEPT ![r] = "done"]
    /\ UNCHANGED << req, res, fault, callAI, provider, transcript, upstreamCalls,
                    transcriptCalls, generatedDir, uploads, streamed >>

-----------------------------------------------------------------------------
\* 4: YouTube summarizer.

summarizeYoutubeVideo(r) ==
    \E url \in FieldInputs, model \in ModelInputs :
        /\ Arrives(r, "summarizeYoutubeVideo", url, model, FALSE)
        /\ IF Falsy(url)
           THEN /\ res' = [res EXCEPT ![r] =
                       Json(400, "error", MissingMessage("summarizeYoutubeVideo"))]
                /\ fault' = [fault EXCEPT ![r] = Fault("MissingInput", "")]
                /\ pc' = [pc EXCEPT ![r] = "done"]
                /\ UNCHANGED transcriptCalls
           ELSE /\ transcriptCalls' = [transcriptCalls EXCEPT ![r] = @ + 1]
                /\ pc' = [pc EXCEPT ![r] = "fetchTranscript"]
                /\ UNCHANGED << res, fault >>
        /\ UNCHANGED << callAI, provider, transcript, upstreamCalls, generatedDir,
                        generatedFile, uploads, streamed, uncaught >>

\* The segment after `await YoutubeTranscript.fetchTranscript(url)`.
summarizeYoutubeVideoFetched(r) ==
    /\ pc[r] = "fetchTranscript"
    /\ \E t \in TranscriptOutcomes :
        /\ transcript' = [transcript EXCEPT ![r] = t]
        /\ IF t.kind = "throw"
           THEN /\ res' = [res EXCEPT ![r] =
                       Json(500, "error",
                            CatchMessage("summarizeYoutubeVideo", TranscriptError))]
                /\ fault' = [fault EXCEPT ![r] =
                       Fault("InternalFailure", TranscriptError)]
                /\ pc' = [pc EXCEPT ![r] = "done"]
                /\ UNCHANGED << callAI, upstreamCalls >>
           ELSE IF NoTranscript(t)
           THEN /\ res' = [res EXCEPT ![r] = Json(404, "error", NoTranscriptMessage)]
                /\ fault' = [fault EXCEPT ![r] = Fault("NoTranscript", "")]
                /\ pc' = [pc EXCEPT ![r] = "done"]
                /\ UNCHANGED << callAI, upstreamCalls >>
           ELSE Dispatch(r, "summarizeYoutubeVideo",
                         EffectiveModel("summarizeYoutubeVideo", req[r].model),
                         TranscriptContent(t))
    /\ UNCHANGED << req, provider, transcriptCalls, generatedDir, generatedFile,
                    uploads, streamed, uncaught >>

summarizeYoutubeVideoResume(r) == JsonResume(r, "summarizeYoutubeVideo")

-----------------------------------------------------------------------------
\* 6: image to text.  multer has stored the upload before the handler runs.

imageToText(r) ==
    \E file \in BOOLEAN, readable \in BOOLEAN :
        /\ Arrives(r, "imageToText", Undefined, Undefined, file)
        /\ IF ~file
           THEN /\ res' = [res EXCEPT ![r] =
                       Json(400, "error", MissingMessage("imageToText"))]
                /\ fault' = [fault EXCEPT ![r] = Fault("MissingInput", "")]
                /\ pc' = [pc EXCEPT ![r] = "done"]
                /\ UNCHANGED << uploads, upstreamCalls >>
           ELSE IF ~readable
           THEN /\ uploads' = uploads \cup {r}
                /\ res' = [res EXCEPT ![r] =
                       Json(500, "error", CatchMessage("imageToText", ReadError))]
                /\ fault' = [fault EXCEPT ![r] = Fault("InternalFailure", ReadError)]
                /\ pc' = [pc EXCEPT ![r] = "done"]
                /\ UNCHANGED upstreamCalls
           ELSE /\ uploads' = uploads \cup {r}
                /\ upstreamCalls' = [upstreamCalls EXCEPT ![r] = @ + 1]
                /\ pc' = [pc EXCEPT ![r] = "vision"]
                /\ UNCHANGED << res, fault >>
        /\ UNCHANGED << callAI, provider, transcript, transcriptCalls, generatedDir,
                        generatedFile, streamed, uncaught >>

\* The upload is unlinked when the catch block is entered with cause `out`:
\* the handler's catch block has no unlink of its own.
CatchUnlinks(out) == out.ok

\* The segment after `await openrouter.chat.completions.create`: unlink the
\* upload, then read choices[0]; a rejected call goes straight to the catch.
imageToTextResume(r) ==
    /\ pc[r] = "vision"
    /\ \E out \in ProviderOutcomes :
        /\ provider' = [provider EXCEPT ![r] = out]
        /\ IF out.ok /\ Len(out.choices) > 0
           THEN /\ uploads' = uploads \ {r}
                /\ res' = [res EXCEPT ![r] =
                       Json(200, ResponseField("imageToText"), FirstChoice(out.choices))]
                /\ UNCHANGED fault
           ELSE /\ uploads' = IF CatchUnlinks(out) THEN uploads \ {r} ELSE uploads
                /\ res' = [res EXCEPT ![r] =
                       Json(500, "error", CatchMessage("imageToText", UpstreamDetail(out)))]
                /\ fault' = [fault EXCEPT ![r] =
                       Fault(IF out.ok THEN "InternalFailure" ELSE "UpstreamFailure",
                             UpstreamDetail(out))]
    /\ pc' = [pc EXCEPT ![r] = "done"]
    /\ UNCHANGED << req, callAI, transcript, upstreamCalls, transcriptCalls, generatedDir,
                    generatedFile, streamed, uncaught >>

-----------------------------------------------------------------------------
Next ==
    \E r \in Reqs :
        \/ generateCode(r)
        \/ generateCodeResume(r)
        \/ generateCodeTransfer(r)
        \/ generateCodeCallback(r)
        \/ summarizeYoutubeVideo(r)
        \/ summarizeYoutubeVideoFetched(r)
        \/ summarizeYoutubeVideoResume(r)
        \/ imageToText(r)
        \/ imageToTextResume(r)
        \/ getMathReasoning(r)
        \/ getMathReasoningResume(r)
        \/ solveCodingTask(r)
        \/ solveCodingTaskResume(r)
        \/ handleChat(r)
        \/ handleChatResume(r)
        \/ getExplainer(r)
        \/ getExplainerResume(r)

Spec == Init /\ [][Next]_vars

-----------------------------------------------------------------------------
\* Properties.

Allowed(model) == \E i \in DOMAIN AVAILABLE_MODELS : AVAILABLE_MODELS[i] = model

\* C1: concurrent code-generation requests each download their own text:
\* what is sent to a request is the text callAI returned to it, and the file
\* a request wrote is still there while its download has yet to read it.
C1_OwnArtifact ==
    \A r \in Reqs :
        /\ streamed[r].state = "sent" => streamed[r].bytes = callAI[r].value
        /\ pc[r] = "download" => generatedFile # NoFile

\* C2: a request that supplies a model outside the allow-list to a handler
\* that dispatches never causes a provider call, and once the handler has
\* called callAI, callAI has failed with the invalid-model error.
C2_InvalidModelNoUpstream ==
    \A r \in Reqs :
        (/\ req[r].endpoint \in ModelEndpoints
         /\ req[r].model # Undefined
         /\ ~Allowed(req[r].model))
        => /\ upstreamCalls[r] = 0
           /\ callAI[r].status \in {"none", "InvalidModel"}
           /\ callAI[r].status = "InvalidModel"
                => callAI[r].value = InvalidModelMessage
           /\ (pc[r] = "done" /\ fault[r].kind \notin {"MissingInput", "NoTranscript", "InternalFailure"})
                => callAI[r].status = "InvalidModel"

C2_Witness ==
    \E r \in Reqs :
        /\ req[r].endpoint = "summarizeYoutubeVideo"
        /\ req[r].model = "gpt-4"
        /\ callAI[r].status = "InvalidModel"
        /\ upstreamCalls[r] = 0

\* C3: once an image-to-text request that carried an upload has been
\* answered, its uploaded file is gone from storage.
C3_UploadRemoved ==
    \A r \in Reqs :
        (req[r].endpoint = "imageToText" /\ req[r].file /\ pc[r] = "done")
        => r \notin uploads

\* C4: a request to a text endpoint whose required field is absent or empty
\* is answered 400 with the endpoint's message, and no provider call and no
\* transcript fetch is made for it, whatever model it names.
C4_MissingInput ==
    \A r \in Reqs :
        (req[r].endpoint \in ModelEndpoints /\ req[r].field \in {Undefined, ""})
        => /\ pc[r] = "done"
           /\ res[r] = Json(400, "error", MissingMessage(req[r].endpoint))
           /\ upstreamCalls[r] = 0
           /\ transcriptCalls[r] = 0
           /\ callAI[r].status = "none"

C4_Witness ==
    \E r \in Reqs :
        /\ req[r].endpoint = "generateCode"
        /\ req[r].field = ""
        /\ req[r].model = "gpt-4"
        /\ res[r].status = 400

\* C5: a finished code-generation request to which callAI returned T, and
\* whose client stayed, was sent exactly T, and the file it wrote is gone.
C5_ArtifactIsT ==
    \A r \in Reqs :
        (/\ req[r].endpoint = "generateCode"
         /\ callAI[r].status = "returned"
         /\ fault[r].kind = "none"
         /\ pc[r] = "done")
        => /\ streamed[r].state # "aborted"
                => streamed[r] = [state |-> "sent", bytes |-> callAI[r].value]
           /\ generatedFile.writer # r

\* C6: when the transcript source answers with no transcript or an empty
\* one, the request is answered 404 and callAI is never called for it.
C6_NoTranscript ==
    \A r \in Reqs :
        (\/ transcript[r].kind = "null"
         \/ transcript[r].kind = "list" /\ transcript[r].segments = << >>)
        => /\ pc[r] = "done"
           /\ res[r] = Json(404, "error", NoTranscriptMessage)
           /\ callAI[r].status = "none"
           /\ upstreamCalls[r] = 0

C6_Witness ==
    \E r \in Reqs :
        /\ transcript[r] = [kind |-> "list", segments |-> << >>]
        /\ res[r].status = 404

\* C7: callAI with an allowed model issues one provider call, never more,
\* and when the provider answers with choices it returns the first choice's
\* text as it is.
C7_FirstChoice ==
    \A r \in Reqs :
        (callAI[r].status # "none" /\ Allowed(callAI[r].model))
        => /\ callAI[r].status \in {"pending", "returned", "UpstreamFailure"}
           /\ upstreamCalls[r] = 1
           /\ (provider[r].ok /\ provider[r].choices # << >>)
                => /\ callAI[r].status = "returned"
                   /\ callAI[r].value = Head(provider[r].choices)

C7_Witness ==
    \E r \in Reqs :
        /\ callAI[r].status = "returned"
        /\ provider[r].choices = <<"T2", "T1">>
        /\ callAI[r].value = "T2"
        /\ upstreamCalls[r] = 1

\* C8: when callAI rejects the model, the response of every endpoint that
\* takes a model carries the invalid-model message with the valid ids.
C8_InvalidModelEchoed ==
    \A r \in Reqs :
        (req[r].endpoint \in ModelEndpoints /\ callAI[r].status = "InvalidModel")
        => res[r].field = "error" /\ res[r].value = InvalidModelMessage

\* C9: a failure that the caller did not cause is answered 500, and two
\* such failures of the same kind at the same endpoint get the same
\* response, whatever their details.
C9_GenericFailure ==
    \A r1, r2 \in Reqs :
        (/\ pc[r1] = "done" /\ pc[r2] = "done"
         /\ req[r1].endpoint = req[r2].endpoint
         /\ fault[r1].kind \in {"UpstreamFailure", "InternalFailure"}
         /\ fault[r2].kind = fault[r1].kind)
        => res[r1].status = 500 /\ res[r1] = res[r2]

\* C10: no exception is thrown outside the handlers' try blocks.
C10_NothingEscapes == uncaught = {}

====
